---- MODULE Spec2Model ----
(***************************************************************************)
(* datxpy: the decoder of reader.py (HDF5Reader), the grid processing     *)
(* functions of utils.py and the viewer of gui.py (HDF5_GUI), as a state   *)
(* machine.  A behaviour of the decoder or of the grid functions draws the *)
(* arguments of a call in its initial state and then applies one of the    *)
(* operations to them; a behaviour of the viewer draws the file on disk    *)
(* and then runs the handlers of the buttons in any order.                 *)
(***************************************************************************)
EXTENDS Integers, Sequences, FiniteSets, TLC

VARIABLES
    mode,       \* "decoder", "grid" or "gui": the component the behaviour exercises
    g,          \* the argument handed to decode_group / void2dict / read;
                \* for the viewer, the file on disk at GoodPath
    call,       \* the operation applied last ("none" before the first)
    ret,        \* what the call returned, or the exception it raised
    data,       \* HDF5Reader.data
    heap,       \* the arrays in memory: reference -> array
    X, Y, Z,    \* references to the caller's arrays
    thr,        \* the threshold argument
    lib,        \* what the installed scipy does where its result is not
                \* fixed by the code: the nearest-neighbour tie-break, and
                \* a query of an empty sample set
    prev,       \* what the previous call of fill_nodata on the same
                \* arguments returned or raised (None before a second call)
    gui,        \* the HDF5_GUI object: reader, data, last_dat, and its
                \* listbox (the names listed, the index selected, 0 if none)
    msgs,       \* the message boxes the last GUI operation showed
    written,    \* the arrays the last GUI operation wrote to the file chosen
    shown       \* what the canvas displays: <<>> or <<x_grid, y_grid, z>>

vars == <<mode, g, call, ret, data, heap, X, Y, Z, thr, lib, prev,
          gui, msgs, written, shown>>

(***************************************************************************)
(* Bounds of the model.                                                    *)
(***************************************************************************)
MaxItems   == 2    \* elements of an input list, tuple or array
MaxRecords == 2    \* records of an input structured array
MaxCells   == 4    \* cells of an input grid
MaxPlots   == 2    \* plots made before the data are saved

(***************************************************************************)
(* Python values.  Every value is a record with a kind.                    *)
(***************************************************************************)
None       == [kind |-> "none"]
Num(v)     == [kind |-> "num", v |-> v]
Bytes(b)   == [kind |-> "bytes", b |-> b]          \* b: the bytes, 0..255
Str(s)     == [kind |-> "str", s |-> s]            \* s: the code points
List(xs)   == [kind |-> "list", items |-> xs]
Tuple(xs)  == [kind |-> "tuple", items |-> xs]
Dict(ks, vs) == [kind |-> "dict", keys |-> ks, vals |-> vs]
Raise(e)   == [kind |-> "raise", exc |-> e]
\* numpy: items is what iterating the array (its first axis) yields
NdArray(dt, sh, xs, ns) ==
    [kind |-> "ndarray", dtype |-> dt, shape |-> sh, items |-> xs, names |-> ns]
Void(ns, xs) == [kind |-> "void", names |-> ns, items |-> xs]
\* h5py
Attrs(ks, vs)     == [kind |-> "attrs", keys |-> ks, vals |-> vs]
Group(ks, vs, at) == [kind |-> "group", keys |-> ks, vals |-> vs, attrs |-> at]
Dataset(at, ok, raw) ==
    [kind |-> "dataset", attrs |-> at, readable |-> ok, raw |-> raw]
NoFile     == [kind |-> "nofile"]

IsRaise(v) == v.kind = "raise"

\* The first exception raised while a sequence of values was computed, if any.
AnyRaise(xs) == \E i \in 1..Len(xs) : IsRaise(xs[i])
FirstRaise(xs) ==
    xs[CHOOSE i \in 1..Len(xs) :
          IsRaise(xs[i]) /\ \A j \in 1..(i - 1) : ~IsRaise(xs[j])]

(***************************************************************************)
(* bytes.decode(): UTF-8, strict.  One- and two-byte sequences; every      *)
(* other lead byte of the model's alphabet (0x80..0xC1, 0xFF) is invalid.  *)
(***************************************************************************)
RECURSIVE Utf8(_)
Utf8(b) ==
    IF b = <<>> THEN <<>>
    ELSE IF b[1] < 128
         THEN LET rest == Utf8(Tail(b))
              IN  IF rest = <<-1>> THEN rest ELSE <<b[1]>> \o rest
    ELSE IF b[1] >= 194 /\ b[1] <= 223 /\ Len(b) >= 2
                        /\ b[2] >= 128 /\ b[2] <= 191
         THEN LET rest == Utf8(Tail(Tail(b)))
              IN  IF rest = <<-1>> THEN rest
                  ELSE <<(b[1] - 192) * 64 + (b[2] - 128)>> \o rest
    ELSE <<-1>>

BytesDecode(v) ==
    LET s == Utf8(v.b)
    IN  IF s = <<-1>> THEN Raise("UnicodeDecodeError") ELSE Str(s)

(***************************************************************************)
(* dict[key] = value: replaces the value of a key the dict has, appends a  *)
(* new key otherwise.                                                      *)
(***************************************************************************)
HasKey(d, k) == \E i \in 1..Len(d.keys) : d.keys[i] = k
GetItem(d, k) == d.vals[CHOOSE i \in 1..Len(d.keys) : d.keys[i] = k]
SetItem(d, k, v) ==
    IF HasKey(d, k)
    THEN Dict(d.keys, [i \in 1..Len(d.keys) |->
                          IF d.keys[i] = k THEN v ELSE d.vals[i]])
    ELSE Dict(Append(d.keys, k), Append(d.vals, v))

\* dict(zip(ks, vs)): pairs up to the shorter length, a later pair wins
RECURSIVE DictZip(_, _, _)
DictZip(d, ks, vs) ==
    IF ks = <<>> \/ vs = <<>> THEN d
    ELSE DictZip(SetItem(d, Head(ks), Head(vs)), Tail(ks), Tail(vs))

\* What iterating a Python value yields; a bare number is not iterable.
Iterate(v) ==
    CASE v.kind \in {"list", "tuple", "ndarray", "void"} -> List(v.items)
      [] v.kind = "str"  -> List([i \in 1..Len(v.s) |-> Str(<<v.s[i]>>)])
      [] v.kind = "dict" ->
            List([i \in 1..Len(v.keys) |-> [kind |-> "key", name |-> v.keys[i]]])
      [] OTHER -> Raise("TypeError")

(***************************************************************************)
(* HDF5Reader.convert, void2dict and decode_group.  An exception raised    *)
(* in a nested call propagates: the first one raised is the result.        *)
(***************************************************************************)
RECURSIVE decode_group(_)

\* [decode_group(x) for x in xs]
DecodeEach(xs) ==
    LET ys == [i \in 1..Len(xs) |-> decode_group(xs[i])]
    IN  IF AnyRaise(ys) THEN FirstRaise(ys) ELSE List(ys)

\* {k: decode_group(v) for k, v in zip(g.keys(), g.values())}
convert(m) ==
    LET ys == DecodeEach(m.vals)
    IN  IF IsRaise(ys) THEN ys ELSE DictZip(Dict(<<>>, <<>>), m.keys, ys.items)

\* dict(zip(obj.dtype.names, decode_group(record))) for one record
RecordDict(names, record) ==
    LET d == decode_group(record)
    IN  IF IsRaise(d) THEN d
        ELSE LET it == Iterate(d)
             IN  IF IsRaise(it) THEN it
                 ELSE DictZip(Dict(<<>>, <<>>), names, it.items)

\* [dict(zip(...)) for record in obj]
void2dict(obj) ==
    LET ds == [i \in 1..Len(obj.items) |-> RecordDict(obj.names, obj.items[i])]
    IN  IF AnyRaise(ds) THEN FirstRaise(ds) ELSE List(ds)

\* Unwrap, were the test len(g) >= 1
UnwrapNonEmpty(s) == IF Len(s.items) >= 1 THEN s.items[1] ELSE s

\* the list / tuple branch: g[0] if len(g) == 1 else g
Unwrap(s) == IF Len(s.items) = 1 THEN s.items[1] ELSE s

\* decode_group(x) for a value x that may itself be a raised exception
Renormalise(x) == IF IsRaise(x) THEN x ELSE decode_group(x)

\* the Group branch
DecodeH5Group(grp) ==
    LET d == convert(grp)
    IN  IF IsRaise(d) THEN d
        ELSE IF Len(grp.attrs.keys) > 0
             THEN LET a == decode_group(grp.attrs)
                  IN  IF IsRaise(a) THEN a ELSE SetItem(d, "attributes", a)
             ELSE d

\* DecodeDataset, were g[()] read outside the try block
DecodeDatasetNoTry(ds) ==
    LET a == decode_group(ds.attrs)
    IN  IF IsRaise(a) THEN a
        ELSE IF ds.readable
             THEN SetItem(Dict(<<"attributes">>, <<a>>), "values", ds.raw)
             ELSE Raise("OSError")

\* the Dataset branch: a failure of g[()] is swallowed
DecodeDataset(ds) ==
    LET a == decode_group(ds.attrs)
    IN  IF IsRaise(a) THEN a
        ELSE LET d == Dict(<<"attributes">>, <<a>>)
             IN  IF ds.readable THEN SetItem(d, "values", ds.raw) ELSE d

\* the ndarray branch
DecodeNdArray(a) ==
    IF a.dtype = "number" /\ a.shape = <<1>> THEN a.items[1]
    ELSE IF a.dtype = "object" THEN Renormalise(DecodeEach(a.items))
    ELSE IF a.dtype = "void" THEN Renormalise(void2dict(a))
    ELSE a

decode_group(v) ==
    CASE v.kind = "group"   -> DecodeH5Group(v)
      [] v.kind = "attrs"   -> convert(v)
      [] v.kind = "dataset" -> DecodeDataset(v)
      [] v.kind = "ndarray" -> DecodeNdArray(v)
      [] v.kind = "void"    -> Renormalise(DecodeEach(v.items))
      [] v.kind = "bytes"   -> BytesDecode(v)
      [] v.kind \in {"list", "tuple"} -> Unwrap(v)
      [] OTHER -> v

\* HDF5Reader.read: (the exception raised, or the tree) for the file at the path
read(file) ==
    IF file.kind = "nofile" THEN Raise("OSError") ELSE decode_group(file)

(***************************************************************************)
(* The arguments the decoder is exercised on.                              *)
(***************************************************************************)
SeqsUpTo(S, n) == UNION {[1..k -> S] : k \in 0..n}
SeqsFrom(S, lo, n) == UNION {[1..k -> S] : k \in lo..n}

Hello   == Bytes(<<104, 105>>)              \* b"hi"
EAcute  == Bytes(<<195, 169>>)              \* two bytes, one code point
BadUtf8 == Bytes(<<255>>)                   \* not UTF-8
Text    == Str(<<109, 109>>)                \* "mm"

NumArr(xs) == NdArray("number", <<Len(xs)>>, xs, <<>>)
One    == NumArr(<<Num(42)>>)                                  \* shape (1,)
OneRow == NdArray("number", <<1, 1>>, <<One>>, <<>>)           \* shape (1, 1)
Pair   == NumArr(<<Num(1), Num(2)>>)                           \* shape (2,)

ElemValues  == {Num(1), Hello, One, Text}
FieldValues == {Num(1), Num(3), Hello, One}
FieldNames  == {<<"field1">>, <<"field1", "field2">>}

InSequences ==
    {List(xs) : xs \in SeqsUpTo(ElemValues, MaxItems)}
    \cup {Tuple(xs) : xs \in SeqsUpTo(ElemValues, MaxItems)}

InObjectArrays ==
    {NdArray("object", <<Len(xs)>>, xs, <<>>) :
        xs \in SeqsFrom(ElemValues \cup {Pair}, 1, MaxItems)}

RecordsOf(ns) == {Void(ns, xs) : xs \in [1..Len(ns) -> FieldValues]}
InVoidArrays ==
    UNION {{NdArray("void", <<Len(rs)>>, rs, ns) :
               rs \in SeqsFrom(RecordsOf(ns), 1, MaxRecords)} : ns \in FieldNames}

InScalars == {Num(1), Hello, EAcute, BadUtf8, Text, One, OneRow, Pair,
              NdArray("bytes", <<2>>, <<Hello, Hello>>, <<>>)}

Points == NdArray("void", <<2>>,
                  <<Void(<<"field1", "field2">>, <<Num(1), Num(3)>>),
                    Void(<<"field1", "field2">>, <<Num(3), One>>)>>,
                  <<"field1", "field2">>)
Lone   == NdArray("void", <<1>>, <<Void(<<"field1">>, <<Num(1)>>)>>, <<"field1">>)

AttrValues == {Num(1), Hello, BadUtf8, Text, One, Pair, Points, Lone}
InAttrs ==
    {Attrs(<<>>, <<>>)}
    \cup {Attrs(<<"No Data">>, <<v>>) : v \in AttrValues}
    \cup {Attrs(<<"No Data", "Unit">>, <<One, v>>) : v \in {Hello, Text}}

RawValues  == {Pair, One, OneRow, Hello, Num(1), Points}
InDatasets ==
    {Dataset(a, ok, raw) : a \in InAttrs, ok \in BOOLEAN, raw \in RawValues}

SomeDatasets ==
    {Dataset(Attrs(<<>>, <<>>), TRUE, Pair),
     Dataset(Attrs(<<"No Data">>, <<One>>), FALSE, Pair),
     Dataset(Attrs(<<"Unit">>, <<BadUtf8>>), TRUE, Pair)}
SomeAttrs ==
    {Attrs(<<>>, <<>>), Attrs(<<"Unit">>, <<Hello>>), Attrs(<<"Unit">>, <<Lone>>)}
ChildNames == {<<>>, <<"Thickness">>, <<"attributes">>,
               <<"Thickness", "attributes">>, <<"attributes", "values">>}
InSubGroups ==
    UNION {{Group(ks, vs, a) : vs \in [1..Len(ks) -> SomeDatasets], a \in SomeAttrs}
              : ks \in ChildNames}
InFiles ==
    {Group(<<"Measurement">>, <<sub>>, a) : sub \in InSubGroups, a \in SomeAttrs}

DecoderInputs ==
    InScalars \cup InSequences \cup InObjectArrays \cup InVoidArrays
    \cup InAttrs \cup InDatasets \cup InSubGroups \cup InFiles \cup {NoFile}

(***************************************************************************)
(* Floating point numbers: not-a-number, or a rational n/d in lowest terms *)
(* with d > 0.  Comparisons with not-a-number are false.                   *)
(***************************************************************************)
Abs(i) == IF i < 0 THEN -i ELSE i

RECURSIVE GCD(_, _)
GCD(a, b) == IF b = 0 THEN a ELSE GCD(b, a % b)

NaN == [nan |-> TRUE, n |-> 0, d |-> 1]
Rat(n, d) ==
    LET k == GCD(Abs(n), Abs(d))
        s == IF d < 0 THEN -1 ELSE 1
    IN  [nan |-> FALSE, n |-> (s * n) \div k, d |-> (s * d) \div k]
F(i) == [nan |-> FALSE, n |-> i, d |-> 1]

FAdd(a, b) == IF a.nan \/ b.nan THEN NaN ELSE Rat(a.n * b.d + b.n * a.d, a.d * b.d)
FSub(a, b) == IF a.nan \/ b.nan THEN NaN ELSE Rat(a.n * b.d - b.n * a.d, a.d * b.d)
FMul(a, b) == IF a.nan \/ b.nan THEN NaN ELSE Rat(a.n * b.n, a.d * b.d)
FEq(a, b)  == ~a.nan /\ ~b.nan /\ a.n * b.d = b.n * a.d
FLt(a, b)  == ~a.nan /\ ~b.nan /\ a.n * b.d < b.n * a.d
FGe(a, b)  == ~a.nan /\ ~b.nan /\ a.n * b.d >= b.n * a.d

(***************************************************************************)
(* numpy arrays in memory.  An array has a shape, a dtype and its cells in *)
(* row-major order; a reference is an index of the heap.                   *)
(***************************************************************************)
Array(sh, dt, xs) == [shape |-> sh, dtype |-> dt, data |-> xs]
ArrayRef(r)       == [kind |-> "array", ref |-> r]
Alloc(h, a)       == [heap |-> Append(h, a), ref |-> Len(h) + 1]

\* a[mask] = v, in place
SetWhere(h, r, mask, v) ==
    [h EXCEPT ![r].data = [i \in 1..Len(h[r].data) |->
                              IF mask[i] THEN v ELSE h[r].data[i]]]

\* np.copy(a): a new array
NpCopy(h, r) == Alloc(h, h[r])

\* astype, were it called with copy=False: a float array is returned itself
AsTypeFloatNoCopy(h, r) ==
    IF h[r].dtype = "float" THEN [heap |-> h, ref |-> r]
    ELSE Alloc(h, Array(h[r].shape, "float", h[r].data))

\* a.astype(float): always a new array
AsTypeFloat(h, r) == Alloc(h, Array(h[r].shape, "float", h[r].data))

(***************************************************************************)
(* scipy.interpolate.griddata(points, values, (X, Y), method='nearest')    *)
(***************************************************************************)
Dist2(xs, ys, i, c) ==
    FAdd(FMul(FSub(xs[i], xs[c]), FSub(xs[i], xs[c])),
         FMul(FSub(ys[i], ys[c]), FSub(ys[i], ys[c])))

\* the valid samples nearest to cell c
Closest(xs, ys, valid, c) ==
    {i \in valid : \A j \in valid : ~FLt(Dist2(xs, ys, j, c), Dist2(xs, ys, i, c))}

\* the sample the library answers with for cell c
Nearest(xs, ys, valid, c, l) ==
    LET best == Closest(xs, ys, valid, c)
    IN  IF l.tie = "first"
        THEN CHOOSE i \in best : \A j \in best : i <= j
        ELSE CHOOSE i \in best : \A j \in best : i >= j

\* fill_nodata, were the threshold test Z >= thr as in remove_nodata
FillMissingGe(v, t) == FGe(v, t)

\* fill_nodata: Z == thr
FillMissing(v, t) == FEq(v, t)

\* remove_nodata, were the threshold test z == thr as in fill_nodata
RemoveMissingEq(v, t) == FEq(v, t)

\* remove_nodata: z >= thr
RemoveMissing(v, t) == FGe(v, t)

\* fill_nodata(X, Y, Z, thr): the heap afterwards, and the result
fill_nodata(h, x, y, z, t, l) ==
    LET a    == AsTypeFloat(h, z)                               \* Z.astype(float)
        h1   == SetWhere(a.heap, a.ref,                         \* Z[Z == thr] = nan
                         [i \in 1..Len(h[z].data) |-> FillMissing(h[z].data[i], t)],
                         NaN)
        zs   == h1[a.ref].data
        mask == {i \in 1..Len(zs) : ~zs[i].nan}                 \* ~np.isnan(Z)
    IN  IF h[x].shape # h[z].shape \/ h[y].shape # h[z].shape   \* X[mask], Y[mask]
        THEN [heap |-> h1, ret |-> Raise("IndexError")]
        ELSE IF mask = {}
        THEN IF l.empty = "IndexError"
             THEN [heap |-> h1, ret |-> Raise("IndexError")]
             ELSE LET o == Alloc(h1, Array(h[x].shape, "float",
                                           [c \in 1..Len(zs) |-> NaN]))
                  IN  [heap |-> o.heap, ret |-> ArrayRef(o.ref)]
        ELSE LET o == Alloc(h1, Array(h[x].shape, "float",
                          [c \in 1..Len(zs) |->
                              zs[Nearest(h[x].data, h[y].data, mask, c, l)]]))
             IN  [heap |-> o.heap, ret |-> ArrayRef(o.ref)]

\* remove_nodata(Z, thr)
remove_nodata(h, z, t) ==
    LET c  == NpCopy(h, z)                                      \* np.copy(Z)
        a  == AsTypeFloat(c.heap, c.ref)                        \* z.astype(float)
        h1 == SetWhere(a.heap, a.ref,                           \* z[z >= thr] = nan
                       [i \in 1..Len(h[z].data) |-> RemoveMissing(h[z].data[i], t)],
                       NaN)
    IN  [heap |-> h1, ret |-> ArrayRef(a.ref)]

(***************************************************************************)
(* scipy.optimize.curve_fit(plane, (x, y), z): the least-squares plane.    *)
(* The normal equations are solved exactly (Cramer's rule).  When the      *)
(* sample points are collinear the parameters are not determined by the    *)
(* data (params is <<>>) but the fitted values, the projection of z, are.  *)
(***************************************************************************)
\* plane, were the offset c left out of it
planeNoOffset(x, y, a, b, c) == FAdd(FMul(a, x), FMul(b, y))

\* plane(xy, a, b, c)
plane(x, y, a, b, c) == FAdd(FAdd(FMul(a, x), FMul(b, y)), c)

\* The vectors are brought to integers over a common denominator, so that
\* the sums and determinants are integer arithmetic.
LCM(a, b) == (a * b) \div GCD(a, b)

RECURSIVE CommonDen(_)
CommonDen(xs) == IF xs = <<>> THEN 1 ELSE LCM(Head(xs).d, CommonDen(Tail(xs)))

Numerators(xs, q) == [i \in 1..Len(xs) |-> xs[i].n * (q \div xs[i].d)]

RECURSIVE ISum(_)
ISum(xs) == IF xs = <<>> THEN 0 ELSE Head(xs) + ISum(Tail(xs))

IDot(xs, ys) == ISum([i \in 1..Len(xs) |-> xs[i] * ys[i]])

Det3(m) ==
      m[1][1] * m[2][2] * m[3][3] + m[1][2] * m[2][3] * m[3][1]
    + m[1][3] * m[2][1] * m[3][2] - m[1][3] * m[2][2] * m[3][1]
    - m[1][2] * m[2][1] * m[3][3] - m[1][1] * m[2][3] * m[3][2]

\* the normal equations' matrix with column k replaced by the right-hand side
WithColumn(nm, r, k) ==
    [i \in 1..3 |-> [j \in 1..3 |-> IF j = k THEN r[i] ELSE nm[i][j]]]

\* the normal equations of z = a*x + b*y + c over integer samples
NormalMatrix(xi, yi) ==
    << <<IDot(xi, xi), IDot(xi, yi), ISum(xi)>>,
       <<IDot(xi, yi), IDot(yi, yi), ISum(yi)>>,
       <<ISum(xi),     ISum(yi),     Len(xi)>> >>
NormalRhs(xi, yi, zi) == <<IDot(xi, zi), IDot(yi, zi), ISum(zi)>>

IsConstant(xs) == \A i \in 1..Len(xs) : xs[i] = xs[1]

\* the parameters (a, b, c) minimising the squared residuals, <<>> if not unique
PlaneParams(xs, ys, zs) ==
    LET qx == CommonDen(xs)
        qy == CommonDen(ys)
        qz == CommonDen(zs)
        xi == Numerators(xs, qx)
        yi == Numerators(ys, qy)
        zi == Numerators(zs, qz)
        nm == NormalMatrix(xi, yi)
        r  == NormalRhs(xi, yi, zi)
        d  == Det3(nm)
    IN  IF d = 0 THEN <<>>
        ELSE <<Rat(Det3(WithColumn(nm, r, 1)) * qx, d * qz),
               Rat(Det3(WithColumn(nm, r, 2)) * qy, d * qz),
               Rat(Det3(WithColumn(nm, r, 3)), d * qz)>>

\* the least-squares line through (ui, zi), evaluated at the ui, over qz
LineFitted(ui, zi, qz) ==
    LET n == Len(zi)
        d == n * IDot(ui, ui) - ISum(ui) * ISum(ui)
        p == n * IDot(ui, zi) - ISum(ui) * ISum(zi)
        q == IDot(ui, ui) * ISum(zi) - ISum(ui) * IDot(ui, zi)
    IN  [i \in 1..n |-> Rat(p * ui[i] + q, d * qz)]

\* the fitted plane's value at every sample
PlaneFitted(xs, ys, zs) ==
    LET p  == PlaneParams(xs, ys, zs)
        qz == CommonDen(zs)
        zi == Numerators(zs, qz)
    IN  IF p # <<>>
        THEN [i \in 1..Len(zs) |-> plane(xs[i], ys[i], p[1], p[2], p[3])]
        ELSE IF IsConstant(xs) /\ IsConstant(ys)
        THEN [i \in 1..Len(zs) |-> Rat(ISum(zi), Len(zs) * qz)]
        ELSE IF IsConstant(xs)
        THEN LineFitted(Numerators(ys, CommonDen(ys)), zi, qz)
        ELSE LineFitted(Numerators(xs, CommonDen(xs)), zi, qz)

\* numpy broadcasting of a vector to length m
Broadcast(v, m) == IF Len(v) = m THEN v ELSE [i \in 1..m |-> v[1]]
Max2(a, b) == IF a >= b THEN a ELSE b
HasNaN(xs) == \E i \in 1..Len(xs) : xs[i].nan

NumParams == 3       \* the parameters a, b, c of plane

\* remove_offset(X, Y, Z)
remove_offset(h, x, y, z) ==
    LET xs == h[x].data                                         \* X.ravel()
        ys == h[y].data                                         \* Y.ravel()
        zc == Alloc(h, Array(<<Len(h[z].data)>>, h[z].dtype,    \* np.copy(Z.ravel())
                             h[z].data))
        zs == zc.heap[zc.ref].data
        m  == Max2(Len(xs), Len(zs))
        bx == Broadcast(xs, m)
        by == Broadcast(ys, m)
        bz == Broadcast(zs, m)
        fail(e) == [heap |-> zc.heap, ret |-> Raise(e)]
    IN  IF HasNaN(zs) THEN fail("ValueError")                   \* check_finite
        ELSE IF Len(xs) # Len(ys) \/ HasNaN(xs) \/ HasNaN(ys) THEN fail("ValueError")
        ELSE IF Len(zs) # 1 /\ NumParams > Len(zs) THEN fail("TypeError")
        ELSE IF Len(xs) # Len(zs) /\ Len(xs) # 1 /\ Len(zs) # 1
             THEN fail("ValueError")                            \* no broadcast
        ELSE IF NumParams > m THEN fail("TypeError")
        ELSE LET fitted == PlaneFitted(bx, by, bz)
                 res    == Alloc(zc.heap, Array(<<m>>, "float",  \* z_data - plane(...)
                               [i \in 1..m |-> FSub(bz[i], fitted[i])]))
             IN  IF m # Len(h[z].data)                           \* reshape(ny, nx)
                 THEN [heap |-> res.heap, ret |-> Raise("ValueError")]
                 ELSE LET out == Alloc(res.heap, Array(h[z].shape, "float",
                                                       res.heap[res.ref].data))
                      IN  [heap |-> out.heap,
                           ret  |-> [kind |-> "fit",
                                     params |-> PlaneParams(bx, by, bz),
                                     ref |-> out.ref]]

(***************************************************************************)
(* HDF5_GUI.__init__: the object as constructed, nothing shown or written. *)
(***************************************************************************)
NewGui == [reader |-> None, data |-> None, last_dat |-> <<>>,
           listbox |-> <<>>, sel |-> 0]

GuiIdle == gui = NewGui /\ msgs = <<>> /\ written = <<>> /\ shown = <<>>

(***************************************************************************)
(* The decoder's calls.                                                    *)
(***************************************************************************)
DecoderInit ==
    /\ mode = "decoder"
    /\ g \in DecoderInputs
    /\ call = "none"
    /\ ret = None
    /\ data = None
    /\ heap = <<>>
    /\ X = 0 /\ Y = 0 /\ Z = 0
    /\ thr = 0
    /\ lib = [tie |-> "first", empty |-> "IndexError"]
    /\ prev = None
    /\ GuiIdle

GridUnchanged == UNCHANGED <<heap, X, Y, Z, thr, lib, prev>>
GuiUnchanged  == UNCHANGED <<gui, msgs, written, shown>>

\* reader.decode_group(g)
DecodeGroupCall ==
    /\ mode = "decoder" /\ call = "none"
    /\ g.kind # "nofile"
    /\ call' = "decode_group"
    /\ ret' = decode_group(g)
    /\ UNCHANGED <<mode, g, data>>
    /\ GridUnchanged
    /\ GuiUnchanged

\* reader.void2dict(g), g a structured array
Void2DictCall ==
    /\ mode = "decoder" /\ call = "none"
    /\ g.kind = "ndarray" /\ g.dtype = "void"
    /\ call' = "void2dict"
    /\ ret' = void2dict(g)
    /\ UNCHANGED <<mode, g, data>>
    /\ GridUnchanged
    /\ GuiUnchanged

\* reader.read(), g the file at file_path (or no file there)
ReadCall ==
    /\ mode = "decoder" /\ call = "none"
    /\ g.kind \in {"group", "nofile"}
    /\ call' = "read"
    /\ ret' = read(g)
    /\ data' = IF IsRaise(read(g)) THEN data ELSE read(g)
    /\ UNCHANGED <<mode, g>>
    /\ GridUnchanged
    /\ GuiUnchanged

(***************************************************************************)
(* The grids the grid functions are exercised on.                          *)
(***************************************************************************)
\* rows <= columns: a taller field is the same case with X and Y exchanged
Shapes     == {sh \in (1..MaxCells) \X (1..MaxCells) :
                  sh[1] <= sh[2] /\ sh[1] * sh[2] <= MaxCells}
CellValues == {NaN, F(0), F(1), F(2)}
ThrValues  == {NaN, F(1)}
Scales     == {0, 1}

\* np.meshgrid(np.arange(cols), np.arange(rows)), scaled: row-major cells
MeshX(sh, k) == [i \in 1..(sh[1] * sh[2]) |-> F(k * ((i - 1) % sh[2]))]
MeshY(sh, k) == [i \in 1..(sh[1] * sh[2]) |-> F(k * ((i - 1) \div sh[2]))]

\* the shapes X and Y come in, for a field of shape sh
CoordShapes(sh) == {sh, <<sh[2], sh[1]>>, <<1, 1>>}

AllMissing(zs, t) == \A i \in 1..Len(zs) : zs[i].nan \/ FEq(zs[i], t)

GridInit ==
    /\ mode = "grid"
    /\ g = None /\ call = "none" /\ ret = None /\ data = None
    /\ prev = None
    /\ GuiIdle
    /\ X = 1 /\ Y = 2 /\ Z = 3
    /\ thr \in ThrValues
    /\ \E sh \in Shapes, zs \in UNION {[1..n -> CellValues] : n \in 1..MaxCells},
          dt \in {"int", "float"}, cs \in Shapes, k \in Scales :
          /\ Len(zs) = sh[1] * sh[2]
          /\ dt = "int" => ~HasNaN(zs)
          /\ cs \in CoordShapes(sh)
          /\ cs # sh => k = 1
          /\ heap = <<Array(cs, "int", MeshX(cs, k)),
                      Array(cs, "int", MeshY(cs, k)),
                      Array(sh, dt, zs)>>
          /\ lib \in [tie : {"first", "last"},
                      empty : IF AllMissing(zs, thr) THEN {"IndexError", "nan"}
                                                     ELSE {"IndexError"}]

DecoderUnchanged == UNCHANGED <<mode, g, data>> /\ GuiUnchanged

\* what a call handed back: the returned array's contents, or the exception
Returned(h, r) == IF r.kind = "array" THEN h[r.ref] ELSE r

\* utils.fill_nodata(X, Y, Z, thr), a first time or once more on the same
\* arguments
FillNodataCall ==
    /\ mode = "grid"
    /\ call = "none" \/ (call = "fill_nodata" /\ prev = None)
    /\ call' = "fill_nodata"
    /\ heap' = fill_nodata(heap, X, Y, Z, thr, lib).heap
    /\ ret'  = fill_nodata(heap, X, Y, Z, thr, lib).ret
    /\ prev' = IF call = "none" THEN None ELSE Returned(heap, ret)
    /\ UNCHANGED <<X, Y, Z, thr, lib>>
    /\ DecoderUnchanged

\* utils.remove_nodata(Z, thr)
RemoveNodataCall ==
    /\ mode = "grid" /\ call = "none"
    /\ call' = "remove_nodata"
    /\ heap' = remove_nodata(heap, Z, thr).heap
    /\ ret'  = remove_nodata(heap, Z, thr).ret
    /\ UNCHANGED <<X, Y, Z, thr, lib, prev>>
    /\ DecoderUnchanged

\* utils.remove_offset(X, Y, Z)
RemoveOffsetCall ==
    /\ mode = "grid" /\ call = "none"
    /\ call' = "remove_offset"
    /\ heap' = remove_offset(heap, X, Y, Z).heap
    /\ ret'  = remove_offset(heap, X, Y, Z).ret
    /\ UNCHANGED <<X, Y, Z, thr, lib, prev>>
    /\ DecoderUnchanged

(***************************************************************************)
(* The GUI: load_file, plot_data and save_data of HDF5_GUI, and the user's *)
(* selection in the listbox.  g is the file at the path GoodPath; at       *)
(* BadPath there is no HDF5 file.                                          *)
(***************************************************************************)
Float(f)          == [kind |-> "float", f |-> f]
\* a two-dimensional numeric array as g[()] reads it, cells in row-major order
Grid2D(sh, dt, xs) == [kind |-> "grid", shape |-> sh, dtype |-> dt, data |-> xs]

NanoMeters == Str(<<78, 97, 110, 111, 77, 101, 116, 101, 114, 115>>)
Micro      == Rat(1, 1000000)      \* 1e-6
Milli      == Rat(1, 1000)         \* 1e-3
Mega       == F(1000000)           \* 1e6

\* a converter attribute: one record, its 'Parameters' an array [0, p]
Converter(p) ==
    NdArray("void", <<1>>,
            <<Void(<<"Category", "Parameters">>,
                   <<Text, NumArr(<<Float(F(0)), Float(p)>>)>>)>>,
            <<"Category", "Parameters">>)

\* a file with the quantity 'Thickness' under 'Measurement'
MeasurementFile(sh, dt, zs, nd, unit, ok) ==
    Group(<<"Measurement">>,
          <<Group(<<"Thickness">>,
                  <<Dataset(Attrs(<<"No Data", "Unit", "X Converter", "Y Converter">>,
                                  <<NumArr(<<Float(nd)>>), unit,
                                    Converter(Micro), Converter(Micro)>>),
                            ok, Grid2D(sh, dt, zs))>>,
                  Attrs(<<>>, <<>>))>>,
          Attrs(<<>>, <<>>))

Cells4(a, b, c, d) == <<F(a), F(b), F(c), F(d)>>

\* the file whose every cell is the 'No Data' value
AllMissingFile ==
    MeasurementFile(<<2, 2>>, "float", Cells4(9, 9, 9, 9), F(9), Text, TRUE)

GuiFiles ==
    {MeasurementFile(<<2, 2>>, "float", Cells4(0, 1, 1, 2), F(9), NanoMeters, TRUE),
     MeasurementFile(<<2, 2>>, "float", Cells4(9, 1, 1, 3), F(9), Text, TRUE),
     MeasurementFile(<<2, 2>>, "int",   Cells4(0, 1, 1, 2), F(9), NanoMeters, TRUE),
     MeasurementFile(<<1, 2>>, "float", <<F(0), F(1)>>,     F(9), Text, TRUE),
     MeasurementFile(<<2, 2>>, "float", Cells4(0, 1, 1, 2), F(9), Text, FALSE),
     MeasurementFile(<<2, 2>>, "float", Cells4(0, 1, 1, 2), F(9), BadUtf8, TRUE),
     AllMissingFile,
     Group(<<>>, <<>>, Attrs(<<>>, <<>>))}

GoodPath == "sample.datx"
BadPath  == "notes.datx"
Disk(path) == IF path = GoodPath THEN g ELSE NoFile

Reader(path) == [kind |-> "reader", file_path |-> path]

\* messagebox.showerror / showinfo
ShowError(text) == [level |-> "error", text |-> text]
ShowInfo(text)  == [level |-> "info", text |-> text]

\* an exception raised inside a GUI operation: where it came from, and
\* whether the operation caught it
Thrown(e, o, c) == [kind |-> "raise", exc |-> e, origin |-> o, caught |-> c]

\* what a GUI operation leaves behind
Outcome(gu, sh, ms, wr, r) ==
    [gui |-> gu, shown |-> sh, msgs |-> ms, written |-> wr, ret |-> r]

\* plot_data, were a file taken as loaded as soon as a reader exists
NoFileLoadedBoth(gu) == gu.reader = None /\ gu.data = None

\* self.reader is None or self.data is None
NoFileLoaded(gu) == gu.reader = None \/ gu.data = None

\* the names load_file lists: the entries of 'Measurement' that have 'values'
Quantities(d) ==
    IF HasKey(d, "Measurement")
    THEN LET m == GetItem(d, "Measurement")
         IN  SelectSeq(m.keys, LAMBDA k : HasKey(GetItem(m, k), "values"))
    ELSE <<>>

\* load_file, path what the file dialog returned ("" when cancelled)
load_file(gu, sh, path) ==
    IF path = "" THEN Outcome(gu, sh, <<>>, <<>>, None)
    ELSE LET r == read(Disk(path))
         IN  IF IsRaise(r)
             THEN Outcome([gu EXCEPT !.reader = Reader(path)], sh,
                          <<ShowError(r.exc)>>, <<>>, Thrown(r.exc, "read", TRUE))
             ELSE Outcome([gu EXCEPT !.reader = Reader(path), !.data = r,
                                     !.listbox = Quantities(r), !.sel = 0],
                          sh, <<>>, <<>>, None)

\* the operation of plot_data on the arrays x_grid, y_grid, z_vals (1, 2, 3)
Process(h, op, t, l) ==
    IF op = "raw"
    THEN LET r == remove_nodata(h, 3, t)
         IN  [heap |-> r.heap, ret |-> r.ret, origin |-> "remove_nodata"]
    ELSE LET f == fill_nodata(h, 1, 2, 3, t, l)
         IN  IF op = "fill" \/ IsRaise(f.ret)
             THEN [heap |-> f.heap, ret |-> f.ret, origin |-> "fill_nodata"]
             ELSE LET o == remove_offset(f.heap, 1, 2, f.ret.ref)
                  IN  [heap |-> o.heap,
                       ret  |-> IF IsRaise(o.ret) THEN o.ret
                                                  ELSE ArrayRef(o.ret.ref),
                       origin |-> "remove_offset"]

\* plot_data, from the copy of the values to the scaled grids: the arrays
\* x_grid, y_grid, z_vals (references 1, 2, 3), the scaled 'No Data' value,
\* and whether z_vals *= 1e-3 is applied to an integer array
Grids(gu) ==
    LET q     == GetItem(GetItem(gu.data, "Measurement"), gu.listbox[gu.sel])
        at    == GetItem(q, "attributes")
        vals  == GetItem(q, "values")
        nano  == GetItem(at, "Unit") = NanoMeters
        scale == IF nano THEN Milli ELSE F(1)
        px    == GetItem(GetItem(at, "X Converter"), "Parameters").items[2].f
        py    == GetItem(GetItem(at, "Y Converter"), "Parameters").items[2].f
        n     == Len(vals.data)
    IN  [heap |-> <<Array(vals.shape, "float",
                          [i \in 1..n |-> FMul(FMul(MeshX(vals.shape, 1)[i], px), Mega)]),
                    Array(vals.shape, "float",
                          [i \in 1..n |-> FMul(FMul(MeshY(vals.shape, 1)[i], py), Mega)]),
                    Array(vals.shape, vals.dtype,
                          [i \in 1..n |-> FMul(vals.data[i], scale)])>>,
         no_data |-> FMul(GetItem(at, "No Data").f, scale),
         cast    |-> nano /\ vals.dtype = "int"]

\* plot_data, from the result r of the operation on: an exception leaves the
\* handler, a result is stored in last_dat and plotted
Plotted(gu, h, r) ==
    IF IsRaise(r.ret)
    THEN Outcome(gu, <<>>, <<>>, <<>>, Thrown(r.ret.exc, r.origin, FALSE))
    ELSE Outcome([gu EXCEPT !.last_dat = @ \o <<h[1], h[2], r.heap[r.ret.ref]>>],
                 <<h[1], h[2], r.heap[r.ret.ref]>>, <<>>, <<>>, None)

\* np.savetxt(f, matrix): the rows of numbers as text, the dtype is not kept
SaveTxt(a) == [shape |-> a.shape, data |-> a.data]

MustPlotFirst ==
    "To save the file you must first make the plot, the data will be saved as they are displayed"

\* save_data, path what the file dialog returned, ok whether the file at
\* path can be written
save_data(gu, sh, path, ok) ==
    IF NoFileLoaded(gu)
    THEN Outcome(gu, sh, <<ShowError("No files loaded")>>, <<>>, None)
    ELSE IF gu.last_dat = <<>>
    THEN Outcome(gu, sh, <<ShowError(MustPlotFirst)>>, <<>>, None)
    ELSE IF gu.sel = 0                                   \* var_listbox.get(())
    THEN Outcome(gu, sh, <<>>, <<>>, Thrown("TclError", "tkinter", FALSE))
    ELSE IF path = ""
    THEN Outcome(gu, sh, <<>>, <<>>, None)
    ELSE IF ~ok
    THEN Outcome(gu, sh, <<ShowError("Unable to save the plot: OSError")>>, <<>>,
                 Thrown("OSError", "open", TRUE))
    ELSE Outcome([gu EXCEPT !.last_dat = <<>>], sh,
                 <<ShowInfo("Saving completed")>>,
                 [i \in 1..Len(gu.last_dat) |-> SaveTxt(gu.last_dat[i])], None)

GuiInit ==
    /\ mode = "gui"
    /\ g \in GuiFiles
    /\ call = "none" /\ ret = None /\ data = None
    /\ heap = <<>>
    /\ X = 0 /\ Y = 0 /\ Z = 0
    /\ thr = 0
    /\ prev = None
    /\ lib \in [tie : {"first", "last"},
                empty : IF g = AllMissingFile THEN {"IndexError", "nan"}
                                              ELSE {"IndexError"}]
    /\ GuiIdle

GuiFrame == UNCHANGED <<mode, g, heap, X, Y, Z, thr, lib, prev>>

\* what an operation left behind becomes the state
Settle(name, o) ==
    /\ call' = name
    /\ gui' = o.gui
    /\ shown' = o.shown
    /\ msgs' = o.msgs
    /\ written' = o.written
    /\ ret' = o.ret

\* the button 'Upload File .datx'
LoadFile ==
    /\ mode = "gui"
    /\ \E path \in {"", GoodPath, BadPath} :
          /\ Settle("load_file", load_file(gui, shown, path))
          /\ data' = IF path = "" THEN data
                     ELSE IF IsRaise(read(Disk(path))) THEN None
                     ELSE read(Disk(path))
    /\ GuiFrame

\* the user selects an entry of the listbox
Select ==
    /\ mode = "gui"
    /\ \E i \in 1..Len(gui.listbox) :
          Settle("select", Outcome([gui EXCEPT !.sel = i], shown, <<>>, <<>>, None))
    /\ UNCHANGED data
    /\ GuiFrame

\* the buttons 'Plot Data', 'Fill No Data', 'Remove Baseline': plot_data(op)
PlotData ==
    /\ mode = "gui"
    /\ Len(gui.last_dat) < 3 * MaxPlots
    /\ \E op \in {"raw", "fill", "baseline"} :
          \/ /\ NoFileLoaded(gui)
             /\ Settle("plot_data", Outcome(gui, shown,
                           <<ShowError("No files loaded")>>, <<>>, None))
          \/ /\ ~NoFileLoaded(gui) /\ gui.sel = 0
             /\ Settle("plot_data", Outcome(gui, shown,
                           <<ShowError("Select one quantity")>>, <<>>, None))
          \/ /\ ~NoFileLoaded(gui) /\ gui.sel # 0
             /\ \E p \in {Grids(gui)} :
                   IF p.cast                                 \* z_vals *= 1e-3
                   THEN Settle("plot_data", Outcome(gui, <<>>, <<>>, <<>>,
                                   Thrown("UFuncTypeError", "numpy", FALSE)))
                   ELSE \E r \in {Process(p.heap, op, p.no_data, lib)} :
                           \E o \in {Plotted(gui, p.heap, r)} :
                              Settle("plot_data", o)
    /\ UNCHANGED data
    /\ GuiFrame

\* the button 'Save current data'
SaveData ==
    /\ mode = "gui"
    /\ \E path \in {"", "out.txt"}, ok \in BOOLEAN :
          Settle("save_data", save_data(gui, shown, path, ok))
    /\ UNCHANGED data
    /\ GuiFrame

Init == DecoderInit \/ GridInit \/ GuiInit
Next ==
    \/ DecodeGroupCall \/ Void2DictCall \/ ReadCall
    \/ FillNodataCall \/ RemoveNodataCall \/ RemoveOffsetCall
    \/ LoadFile \/ Select \/ PlotData \/ SaveData
Spec == Init /\ [][Next]_vars

(***************************************************************************)
(* Properties of the decoder.                                              *)
(***************************************************************************)
\* the values directly inside a decoded value
Inner(v) ==
    CASE v.kind = "dict" -> v.vals
      [] v.kind \in {"list", "tuple", "ndarray", "void"} -> v.items
      [] OTHER -> <<>>

IsSingletonArray(v) ==
    /\ v.kind = "ndarray" /\ v.dtype = "number"
    /\ \A i \in 1..Len(v.shape) : v.shape[i] = 1

RECURSIVE HasSingletonArray(_)
HasSingletonArray(v) ==
    \/ IsSingletonArray(v)
    \/ \E i \in 1..Len(Inner(v)) : HasSingletonArray(Inner(v)[i])

RECURSIVE HasBytes(_)
HasBytes(v) ==
    \/ v.kind = "bytes"
    \/ \E i \in 1..Len(Inner(v)) : HasBytes(Inner(v)[i])

\* the node with every dataset's raw value readable
RECURSIVE AllReadable(_)
AllReadable(v) ==
    CASE v.kind = "group" ->
            Group(v.keys, [i \in 1..Len(v.vals) |-> AllReadable(v.vals[i])], v.attrs)
      [] v.kind = "dataset" -> Dataset(v.attrs, TRUE, v.raw)
      [] OTHER -> v

\* C1: decode_group of a Dataset returns a mapping that has 'attributes' (the
\* decoded attributes, an empty mapping when there are none) and has 'values'
\* exactly when reading the raw value succeeded; a failed read of a raw value
\* never makes decode_group or read raise: they raise exactly when they do
\* with every raw value readable.
C1_DatasetKeys ==
    /\ (call = "decode_group" /\ g.kind = "dataset") =>
          /\ IsRaise(ret) <=> IsRaise(decode_group(g.attrs))
          /\ ~IsRaise(ret) =>
                /\ ret.kind = "dict"
                /\ HasKey(ret, "attributes")
                /\ GetItem(ret, "attributes") = decode_group(g.attrs)
                /\ g.attrs.keys = <<>> =>
                      GetItem(ret, "attributes") = Dict(<<>>, <<>>)
                /\ HasKey(ret, "values") <=> g.readable
    /\ (call \in {"decode_group", "read"} /\ g.kind = "group") =>
          (IsRaise(ret) <=> IsRaise(decode_group(AllReadable(g))))

C1_Witness ==
    /\ call = "decode_group" /\ g.kind = "dataset"
    /\ ~g.readable /\ g.attrs.keys = <<>>
    /\ ret = Dict(<<"attributes">>, <<Dict(<<>>, <<>>)>>)

\* the nodes of a file: a group, a dataset, a set of attributes
IsFileNode(v) == v.kind \in {"group", "dataset", "attrs"}

\* C2: in the tree decode_group produces for a node of a file, no numeric
\* array holding exactly one number is left anywhere (attribute values,
\* a Dataset's 'values', record fields, elements), at any depth.
C2_SingletonsCollapsed ==
    (call = "decode_group" /\ IsFileNode(g) /\ ~IsRaise(ret)) =>
        ~HasSingletonArray(ret)

\* C3: void2dict of a structured array of n records with field names F yields
\* n mappings in record order, each with exactly the keys F, each key mapped
\* to the decoded value of that field of that record.
C3_Void2Dict ==
    call = "void2dict" =>
        /\ ret.kind = "list"
        /\ Len(ret.items) = Len(g.items)
        /\ \A i \in 1..Len(g.items) :
              /\ ret.items[i].kind = "dict"
              /\ ret.items[i].keys = g.names
              /\ \A j \in 1..Len(g.names) :
                    ret.items[i].vals[j] = decode_group(g.items[i].items[j])

\* C4: in the tree decode_group produces for a node of a file, or for a
\* byte string, no byte string is left anywhere: each has become text.
C4_NoBytesRemain ==
    (call = "decode_group" /\ (IsFileNode(g) \/ g.kind = "bytes")
                           /\ ~IsRaise(ret)) => ~HasBytes(ret)

\* C5: decode_group of a Group maps every child name to the decoded child,
\* and, when the group has attributes, 'attributes' to the decoded attributes.
C5_GroupChildren ==
    (call = "decode_group" /\ g.kind = "group" /\ ~IsRaise(ret)) =>
        /\ ret.kind = "dict"
        /\ \A i \in 1..Len(g.keys) :
              /\ HasKey(ret, g.keys[i])
              /\ GetItem(ret, g.keys[i]) = decode_group(g.vals[i])
        /\ Len(g.attrs.keys) > 0 =>
              /\ HasKey(ret, "attributes")
              /\ GetItem(ret, "attributes") = decode_group(g.attrs)

\* C6: decode_group of a list or tuple of length 1 returns its sole element;
\* of length 2 or more it returns the sequence itself, unchanged.
C6_SequenceUnwrap ==
    (call = "decode_group" /\ g.kind \in {"list", "tuple"}) =>
        /\ Len(g.items) = 1 => ret = g.items[1]
        /\ Len(g.items) >= 2 => ret = g

C6_Witness ==
    /\ call = "decode_group" /\ g.kind = "tuple"
    /\ Len(g.items) = 2 /\ g.items[1] = Hello /\ ret = g

(***************************************************************************)
(* Properties of the grid functions.                                       *)
(***************************************************************************)
SameShapes == heap[X].shape = heap[Z].shape /\ heap[Y].shape = heap[Z].shape
IsMissing(v, t) == v.nan \/ FEq(v, t)
Cells(r) == heap[r].data

\* C7: for same-shaped X, Y, Z with at least one cell of Z not missing,
\* fill_nodata returns an array with no cell equal to thr and no
\* not-a-number cell.
C7_FillLeavesNoMissing ==
    (/\ call = "fill_nodata"
     /\ SameShapes
     /\ \E i \in 1..Len(Cells(Z)) : ~IsMissing(Cells(Z)[i], thr)) =>
        /\ ret.kind = "array"
        /\ heap[ret.ref].shape = heap[Z].shape
        /\ \A i \in 1..Len(Cells(ret.ref)) : ~IsMissing(Cells(ret.ref)[i], thr)

C7_Witness ==
    /\ call = "fill_nodata" /\ SameShapes /\ ret.kind = "array"
    /\ \E i, j, k \in 1..Len(Cells(Z)) :
          /\ FEq(Cells(Z)[i], thr)
          /\ Cells(Z)[j].nan
          /\ FLt(thr, Cells(Z)[k])
          /\ Cells(ret.ref)[i] = Cells(Z)[k]

\* C8: remove_nodata returns an array of Z's shape in which every cell whose
\* input is equal to or greater than thr is not-a-number and every cell
\* whose input is less than thr holds the input value.
C8_RemoveThreshold ==
    call = "remove_nodata" =>
        /\ ret.kind = "array"
        /\ heap[ret.ref].shape = heap[Z].shape
        /\ \A i \in 1..Len(Cells(Z)) :
              /\ FGe(Cells(Z)[i], thr) => Cells(ret.ref)[i].nan
              /\ FLt(Cells(Z)[i], thr) => Cells(ret.ref)[i] = Cells(Z)[i]

C8_Witness ==
    /\ call = "remove_nodata" /\ ret.kind = "array"
    /\ \E i, j, k \in 1..Len(Cells(Z)) :
          /\ FLt(Cells(Z)[i], thr) /\ ~Cells(ret.ref)[i].nan
          /\ FEq(Cells(Z)[j], thr) /\ Cells(ret.ref)[j].nan
          /\ FLt(thr, Cells(Z)[k]) /\ Cells(ret.ref)[k].nan

\* C9: fill_nodata on a field whose every cell is missing fails with an
\* error and returns no array.
C9_AllMissingRaises ==
    (/\ call = "fill_nodata"
     /\ SameShapes
     /\ \A i \in 1..Len(Cells(Z)) : FEq(Cells(Z)[i], thr)) => IsRaise(ret)

\* C10: a call of fill_nodata, remove_nodata or remove_offset leaves every
\* array that existed before the call with the contents it had, whether it
\* returns or raises, and the array it returns is a new one.
C10_InputsUntouched ==
    [][mode = "grid" =>
          /\ \A r \in DOMAIN heap : heap'[r] = heap[r]
          /\ ret'.kind \in {"array", "fit"} => ret'.ref \notin DOMAIN heap]_vars

C10_Witness ==
    /\ call = "fill_nodata" /\ ret.kind = "array"
    /\ heap[Z].dtype = "float"
    /\ \E i \in 1..Len(Cells(Z)) : FEq(Cells(Z)[i], thr)
    /\ ret.ref \notin {X, Y, Z}

\* the coefficients the planes of the fields are built from
PlaneCoeffs == {0 - 2, 0 - 1, 0, 1, 2}

\* Z is a0*X + b0*Y + c0 at every cell
OnPlane(a0, b0, c0) ==
    \A i \in 1..Len(Cells(Z)) :
        Cells(Z)[i] = FAdd(FAdd(FMul(F(a0), Cells(X)[i]),
                                FMul(F(b0), Cells(Y)[i])), F(c0))

\* the grid has three points not on one line
NonDegenerate ==
    \E i, j, k \in 1..Len(Cells(X)) :
        LET ux == FSub(Cells(X)[j], Cells(X)[i])
            uy == FSub(Cells(Y)[j], Cells(Y)[i])
            vx == FSub(Cells(X)[k], Cells(X)[i])
            vy == FSub(Cells(Y)[k], Cells(Y)[i])
        IN  ~FEq(FMul(ux, vy), FMul(vx, uy))

\* C11: for same-shaped X, Y on a grid that is not degenerate and Z equal to
\* a0*X + b0*Y + c0 at every cell, remove_offset returns the parameters
\* (a0, b0, c0) and a residual field of Z's shape whose every cell is zero.
C11_PlaneRecovered ==
    (call = "remove_offset" /\ SameShapes /\ NonDegenerate) =>
        \A a0, b0, c0 \in PlaneCoeffs :
            OnPlane(a0, b0, c0) =>
                /\ ret.kind = "fit"
                /\ ret.params = <<F(a0), F(b0), F(c0)>>
                /\ heap[ret.ref].shape = heap[Z].shape
                /\ \A i \in 1..Len(Cells(ret.ref)) : Cells(ret.ref)[i] = F(0)

C11_Witness ==
    /\ call = "remove_offset" /\ SameShapes /\ NonDegenerate
    /\ OnPlane(0 - 1, 1, 1)
    /\ ret.kind = "fit"
    /\ ret.params = <<F(0 - 1), F(1), F(1)>>
    /\ \A i \in 1..Len(Cells(ret.ref)) : Cells(ret.ref)[i] = F(0)

\* C12: whenever X, Y and Z do not all have the same shape, fill_nodata and
\* remove_offset raise and return no result, whatever the mismatch (an X or
\* Y of a single element included).
C12_MismatchRaises ==
    (call \in {"fill_nodata", "remove_offset"} /\ ~SameShapes) => IsRaise(ret)

\* the cells of Z that are samples: neither equal to thr nor not-a-number
Valid == {i \in 1..Len(Cells(Z)) : ~IsMissing(Cells(Z)[i], thr)}

\* the squared distance in (X, Y) between cells i and c
CellDist2(i, c) == Dist2(Cells(X), Cells(Y), i, c)

\* C15: every cell of the array fill_nodata returns holds the Z value of a
\* valid sample (Z neither equal to thr nor not-a-number) whose distance in
\* (X, Y) to the cell is least among the valid samples, and a second call on
\* the same arguments hands back what the first did.
C15_NearestValidSample ==
    call = "fill_nodata" =>
        /\ ret.kind = "array" =>
              \A c \in 1..Len(Cells(ret.ref)) :
                  \E i \in Valid :
                      /\ Cells(ret.ref)[c] = Cells(Z)[i]
                      /\ \A j \in Valid : ~FLt(CellDist2(j, c), CellDist2(i, c))
        /\ prev # None => Returned(heap, ret) = prev

(***************************************************************************)
(* Properties of the GUI.                                                  *)
(***************************************************************************)
\* the functions of the core
CoreFunctions == {"read", "fill_nodata", "remove_nodata", "remove_offset"}

\* C13: an error raised by the core (read, fill_nodata, remove_nodata,
\* remove_offset) during load_file, plot_data or save_data is caught inside
\* the operation and shown in one error message box; it never escapes.
C13_CoreErrorsCaught ==
    (/\ mode = "gui"
     /\ call \in {"load_file", "plot_data", "save_data"}
     /\ IsRaise(ret) /\ ret.origin \in CoreFunctions) =>
        /\ ret.caught
        /\ Len(msgs) = 1 /\ msgs[1].level = "error"

\* the operation shows the one error message text and does nothing else
OnlyReports(text) ==
    /\ msgs' = <<ShowError(text)>>
    /\ gui' = gui
    /\ shown' = shown
    /\ written' = <<>>
    /\ ret' = None

\* C14: an operation whose guard fails shows exactly one error message and
\* changes nothing: plot_data with reader or data None shows 'No files
\* loaded'; plot_data with a file loaded and nothing selected shows 'Select
\* one quantity'; save_data with a file loaded and last_dat empty shows that
\* the plot must be made first.  reader, data and last_dat stay as they
\* were, nothing is plotted, nothing is written.
C14_GuardFailure ==
    [][mode = "gui" =>
          /\ (call' = "plot_data" /\ (gui.reader = None \/ gui.data = None)) =>
                OnlyReports("No files loaded")
          /\ (call' = "plot_data" /\ gui.reader # None /\ gui.data # None
                                  /\ gui.sel = 0) =>
                OnlyReports("Select one quantity")
          /\ (call' = "save_data" /\ gui.reader # None /\ gui.data # None
                                  /\ gui.last_dat = <<>>) =>
                OnlyReports(MustPlotFirst)]_vars

C14_Witness ==
    /\ mode = "gui" /\ call = "plot_data"
    /\ gui.reader # None /\ gui.data # None /\ gui.sel = 0
    /\ gui.listbox # <<>> /\ gui.last_dat # <<>>
    /\ shown # <<>>
    /\ msgs = <<ShowError("Select one quantity")>>

\* C16: last_dat never holds more than the three arrays of the plot
\* displayed, and a successful save_data writes exactly the three arrays
\* (x_grid, y_grid, z) of the plot displayed, the most recent one, and
\* leaves last_dat empty.
C16_SavedIsDisplayed ==
    mode = "gui" =>
        /\ Len(gui.last_dat) <= 3
        /\ (gui.last_dat # <<>> /\ shown # <<>>) => gui.last_dat = shown
        /\ (call = "save_data" /\ written # <<>>) =>
              /\ gui.last_dat = <<>>
              /\ shown # <<>>
              /\ written = [i \in 1..3 |-> SaveTxt(shown[i])]
====
